---------------------------- MODULE Spec2Model ----------------------------
(***************************************************************************)
(* Model of server.js: the dbWrapper store adapter over PostgreSQL/SQLite, *)
(* the start-up schema provisioning, the entity CRUD handlers and the      *)
(* dashboard aggregation of GET /api/dashboard-summary.                    *)
(*                                                                         *)
(* Values.  A nullable column is <<>> for NULL and <<v>> for the value v.  *)
(* Time is an integer count of ticks; TicksPerMonth ticks make a calendar  *)
(* month (tick 0 of a month is its first instant, the last tick its last   *)
(* instant) and MonthsPerYear months a year.  Ticks before the epoch are   *)
(* negative.  Free-text columns no handler reads back (description,        *)
(* address, email, phone, last_admin_responder) are left out of the rows.  *)
(***************************************************************************)
EXTENDS Integers, Sequences, FiniteSets, TLC

VARIABLES
    DATABASE_URL,    \* TRUE: PostgreSQL (production), FALSE: SQLite (local)
    db,              \* the store handle: "undefined", "unconnected", "open"
    ipc,             \* position of the start-up IIFE
    provisionRuns,   \* how many times the provisioning block was entered
    provisionFailed, \* the catch block logged an initialisation error
    listening,       \* startServer() has run: routes registered, app.listen
    crashed,         \* an exception escaped a handler
    schemaPresent,   \* the three tables and the trigger exist in the store
    clients,         \* table clients: set of rows
    orders,          \* table orders: set of rows
    measurement_tasks, \* table measurement_tasks: set of rows
    nextId,          \* next SERIAL / AUTOINCREMENT value per table
    clock,           \* the current instant (new Date(), CURRENT_TIMESTAMP)
    dpc,             \* position of the dashboard handler
    activeOrders,    \* dashboard local: rows of the first read
    measurements,    \* dashboard local: rows of the second read
    ordersForTasks,  \* dashboard local: rows of the third read
    writeSeen,       \* history: a write completed between the first and third read
    res,             \* the dashboard response body (NoRes before it is sent)
    last,            \* the last entity/login/dashboard response: op, code, cascaded
    pgRows,          \* adapter comparison: rows returned on the PostgreSQL path
    sqliteRows       \* adapter comparison: rows returned on the SQLite path

vars == <<DATABASE_URL, db, ipc, provisionRuns, provisionFailed, listening,
          crashed, schemaPresent, clients, orders, measurement_tasks, nextId,
          clock, dpc, activeOrders, measurements, ordersForTasks, writeSeen,
          res, last, pgRows, sqliteRows>>

(***************************************************************************)
(* Bounds and program constants                                            *)
(***************************************************************************)
MaxClients == 2
MaxOrders == 1
MaxTasks == 1
MaxClock == 2
MaxPrice == 1
MaxKpiRows == 2
MaxStatusRows == 4
MaxMonthRows == 2
MaxDueRows == 3
MaxMeasRows == 3
MaxEventTime == 2
TicksPerMonth == 2
MonthsPerYear == 12
SeriesLength == 6
FeedLength == 5

Null == <<>>
Val(v) == <<v>>
NoRes == [sent |-> FALSE]

\* status is free TEXT in both schemas; the code names three values
Statuses == {"Pendiente", "EnProduccion", "Finalizado", "Cancelado"}
Names == {"Acme", "Beta"}

(***************************************************************************)
(* JavaScript helpers used by the dashboard handler                        *)
(***************************************************************************)
\* (x || 0): null (and 0) give 0
OrZero(x) == IF x = Null THEN 0 ELSE x[1]

\* s + x with x a number or null: ToNumber(null) is +0
PlusNum(s, x) == IF x = Null THEN s + 0 ELSE s + x[1]

\* acc[o.status] = (acc[o.status] || 0) + 1; keys keep insertion order
CountStatusNoIncrement(acc, o) ==
    IF \E i \in 1..Len(acc) : acc[i].status = o.status
    THEN acc
    ELSE Append(acc, [status |-> o.status, count |-> 1])

CountStatus(acc, o) ==
    IF \E i \in 1..Len(acc) : acc[i].status = o.status
    THEN [i \in 1..Len(acc) |->
            IF acc[i].status = o.status
            THEN [acc[i] EXCEPT !.count = @ + 1] ELSE acc[i]]
    ELSE Append(acc, [status |-> o.status, count |-> 1])

\* the arrow functions handed to reduce and sort, by name
Callback(f, a, b) ==
    CASE f = "paidOrZero" -> a + OrZero(b.paid_price)
      [] f = "costOrZero" -> a + OrZero(b.cost_price)
      [] f = "agreedOrZero" -> a + OrZero(b.agreed_price)
      [] f = "agreed" -> PlusNum(a, b.agreed_price)
      [] f = "paid" -> PlusNum(a, b.paid_price)
      [] f = "cost" -> PlusNum(a, b.cost_price)
      [] f = "countStatus" -> CountStatus(a, b)
      [] f = "byCountDesc" -> b.count - a.count
      [] f = "byDateAsc" -> a.date - b.date

\* Array.prototype.reduce(f, acc): a left fold
RECURSIVE Reduce(_, _, _)
Reduce(f, seq, acc) ==
    IF seq = <<>> THEN acc ELSE Reduce(f, Tail(seq), Callback(f, acc, Head(seq)))

\* Array.prototype.sort(cmp): stable; cmp(a, b) > 0 puts b before a
RECURSIVE InsertSorted(_, _, _)
InsertSorted(cmp, x, sorted) ==
    IF sorted = <<>> THEN <<x>>
    ELSE IF Callback(cmp, Head(sorted), x) > 0 THEN <<x>> \o sorted
         ELSE <<Head(sorted)>> \o InsertSorted(cmp, x, Tail(sorted))

RECURSIVE SortWith(_, _)
SortWith(cmp, seq) ==
    IF seq = <<>> THEN <<>>
    ELSE InsertSorted(cmp, seq[Len(seq)], SortWith(cmp, SubSeq(seq, 1, Len(seq) - 1)))

\* Array.prototype.slice(0, n)
Slice(seq, n) == SubSeq(seq, 1, IF Len(seq) < n THEN Len(seq) ELSE n)

\* Date: getFullYear / getMonth of an instant, and new Date(y, m, 1) with
\* the month carried into the year (m may be negative)
AbsMonth(t) == t \div TicksPerMonth
GetFullYear(t) == AbsMonth(t) \div MonthsPerYear
GetMonth(t) == AbsMonth(t) % MonthsPerYear
MakeDate(y, m) == [year |-> y + (m \div MonthsPerYear), month |-> m % MonthsPerYear]

\* toLocaleString('es-ES', {month: 'short', year: '2-digit'})
MonthLabel(d) == <<d.month, d.year % 100>>

(***************************************************************************)
(* Dashboard aggregation (lines 170-177)                                   *)
(***************************************************************************)
KpisWrongDebt(rows) ==
    LET totalPaid == Reduce("paidOrZero", rows, 0)
        totalCosts == Reduce("costOrZero", rows, 0)
    IN  [totalPaid |-> totalPaid, totalCosts |-> totalCosts,
         netProfit |-> totalPaid - totalCosts,
         totalDebt |-> Reduce("agreedOrZero", rows, 0) - totalCosts]

\* lines 170-172
Kpis(rows) ==
    LET totalPaid == Reduce("paidOrZero", rows, 0)
        totalCosts == Reduce("costOrZero", rows, 0)
    IN  [totalPaid |-> totalPaid, totalCosts |-> totalCosts,
         netProfit |-> totalPaid - totalCosts,
         totalDebt |-> Reduce("agreedOrZero", rows, 0) - totalPaid]

\* line 173
StatusCounts(rows) == Reduce("countStatus", rows, <<>>)

StatusSummaryUnsorted(rows) == StatusCounts(rows)

\* line 174: Object.entries(statusCounts).map(...).sort((a, b) => b.count - a.count)
StatusSummary(rows) == SortWith("byCountDesc", StatusCounts(rows))

\* line 175, one pass of the loop for the month d
MonthEntry(rows, d) ==
    LET InMonth(o) == GetFullYear(o.createdAt) = d.year /\ GetMonth(o.createdAt) = d.month
        ordersInMonth == SelectSeq(rows, InMonth)
    IN  [month |-> MonthLabel(d),
         agreed |-> Reduce("agreed", ordersInMonth, 0),
         paid |-> Reduce("paid", ordersInMonth, 0),
         cost |-> Reduce("cost", ordersInMonth, 0)]

MonthlyFinancialsNoCarry(rows, now) ==
    [k \in 1..SeriesLength |->
        MonthEntry(rows, [year |-> GetFullYear(now),
                          month |-> (GetMonth(now) - (SeriesLength - k)) % MonthsPerYear])]

\* for (let i = 5; i >= 0; i--): entry k of the result is i = SeriesLength - k
MonthlyFinancials(rows, now) ==
    [k \in 1..SeriesLength |->
        MonthEntry(rows, MakeDate(GetFullYear(now), GetMonth(now) - (SeriesLength - k)))]

DeliveryEvent(o) ==
    [id |-> o.id, type |-> "Entrega", icon |-> "rocket-outline",
     date |-> o.due_datetime[1], clientName |-> o.clientName, clientId |-> o.client_id]

MeasurementEvent(m) ==
    [id |-> m.id, type |-> "Medicion", icon |-> "build-outline",
     date |-> m.task_datetime[1], clientName |-> m.clientName, clientId |-> m.client_id]

\* line 176: the two forEach loops pushing onto upcomingTasks
UpcomingEvents(oRows, mRows, today) ==
    LET DueOk(o) == o.due_datetime # Null /\ o.due_datetime[1] >= today
        TaskOk(m) == m.task_datetime # Null /\ m.task_datetime[1] >= today
        deliveries == SelectSeq(oRows, DueOk)
        visits == SelectSeq(mRows, TaskOk)
    IN  [i \in 1..Len(deliveries) |-> DeliveryEvent(deliveries[i])]
        \o [i \in 1..Len(visits) |-> MeasurementEvent(visits[i])]

SortedTasksUnsorted(oRows, mRows, today) ==
    Slice(UpcomingEvents(oRows, mRows, today), FeedLength)

\* line 177: upcomingTasks.sort((a, b) => a.date - b.date).slice(0, 5)
SortedTasks(oRows, mRows, today) ==
    Slice(SortWith("byDateAsc", UpcomingEvents(oRows, mRows, today)), FeedLength)


(***************************************************************************)
(* The store: tables, constraints and triggers (lines 65-113, 126-134)     *)
(***************************************************************************)
startVars == <<DATABASE_URL, db, ipc, provisionRuns, provisionFailed, listening, schemaPresent>>
storeVars == <<clients, orders, measurement_tasks, nextId>>
dashVars == <<dpc, activeOrders, measurements, ordersForTasks, res>>
adapterVars == <<pgRows, sqliteRows>>

ClientIds == {c.id : c \in clients}
ClientName(id) == (CHOOSE c \in clients : c.id = id).name

\* a store call succeeds only on an open handle with the tables in place:
\* db undefined throws a TypeError, an unconnected pg client rejects the
\* query, a missing table is a query error
StoreUsable == db = "open" /\ schemaPresent

\* ON DELETE CASCADE of orders.client_id and measurement_tasks.client_id
CascadeNone(rows, clientId) == rows

CascadeDelete(rows, clientId) == {r \in rows : r.client_id # clientId}

\* REFERENCES clients(id) / FOREIGN KEY (client_id) REFERENCES clients(id),
\* with PRAGMA foreign_keys = ON on SQLite
ForeignKeyUnchecked(clientId) == TRUE

ForeignKeyOk(clientId) == clientId \in ClientIds

\* PostgreSQL: BEFORE UPDATE ... NEW."updatedAt" = now()
PgTriggerMissing(new) == new

PgUpdateTrigger(new) == [new EXCEPT !.updatedAt = clock]

\* SQLite: AFTER UPDATE ... UPDATE orders SET updatedAt = CURRENT_TIMESTAMP
\* WHERE id = OLD.id (the nested update does not fire the trigger again)
SqliteUpdateTrigger(rows, oldId) ==
    {IF o.id = oldId THEN [o EXCEPT !.updatedAt = clock] ELSE o : o \in rows}

\* UPDATE orders SET ... WHERE id = $9, with the backend's trigger
SetColumns(o, body) ==
    [o EXCEPT !.agreed_price = body.agreed_price, !.paid_price = body.paid_price,
              !.cost_price = body.cost_price, !.status = body.status,
              !.due_datetime = body.due_datetime, !.is_active = body.is_active]

UpdateOrders(rows, id, body) ==
    IF DATABASE_URL
    THEN {IF o.id = id THEN PgUpdateTrigger(SetColumns(o, body)) ELSE o : o \in rows}
    ELSE LET written == {IF o.id = id THEN SetColumns(o, body) ELSE o : o \in rows}
         IN  IF \E o \in rows : o.id = id THEN SqliteUpdateTrigger(written, id) ELSE written

\* INSERT INTO orders ...: id from the sequence, createdAt and updatedAt
\* default to CURRENT_TIMESTAMP
NewOrder(id, body) ==
    [id |-> id, client_id |-> body.client_id, is_active |-> body.is_active,
     agreed_price |-> body.agreed_price, paid_price |-> body.paid_price,
     cost_price |-> body.cost_price, status |-> body.status,
     due_datetime |-> body.due_datetime, createdAt |-> clock, updatedAt |-> clock]

NewTask(id, clientId, when) ==
    [id |-> id, client_id |-> clientId, task_datetime |-> when, is_completed |-> FALSE]

\* a result set has no ORDER BY: the rows come in any order
RowOrders(S) ==
    {s \in [1..Cardinality(S) -> S] : \A i, j \in 1..Cardinality(S) : i # j => s[i] # s[j]}

WithClientName(r) ==
    [k \in (DOMAIN r) \cup {"clientName"} |->
        IF k = "clientName" THEN ClientName(r.client_id) ELSE r[k]]

\* SELECT * FROM orders WHERE is_active = true AND status != 'Cancelado'
SelectActiveOrders == {o \in orders : o.is_active /\ o.status # "Cancelado"}

\* SELECT m.*, c.name ... WHERE m.is_completed = false
SelectMeasurements ==
    {WithClientName(m) : m \in {t \in measurement_tasks : ~t.is_completed}}

\* SELECT o.*, c.name ... WHERE o.is_active = true AND o.status NOT IN (...)
SelectOrdersForTasksKeepsCancelled ==
    {WithClientName(o) : o \in {x \in orders : x.is_active /\ x.status # "Finalizado"}}

SelectOrdersForTasks ==
    {WithClientName(o) : o \in {x \in orders :
        x.is_active /\ x.status \notin {"Finalizado", "Cancelado"}}}

(***************************************************************************)
(* Start-up (lines 52-145) and startServer (lines 148-208)                 *)
(***************************************************************************)
NoLast == [op |-> "none", code |-> 0, cascaded |-> 0]

StartServer == listening' = TRUE

\* the catch block: log, then fall through to startServer()
InitFailed ==
    /\ provisionFailed' = TRUE
    /\ StartServer
    /\ ipc' = "done"

\* db = new Client(...); await db.connect()
PgConnect ==
    /\ ipc = "start" /\ DATABASE_URL
    /\ db' = "unconnected"
    /\ provisionRuns' = provisionRuns + 1
    /\ ipc' = "connecting"
    /\ UNCHANGED <<DATABASE_URL, provisionFailed, listening, schemaPresent, crashed,
                   storeVars, clock, dashVars, writeSeen, last, adapterVars>>

\* connect resolved; the DDL batch is sent
PgConnected ==
    /\ ipc = "connecting"
    /\ db' = "open"
    /\ ipc' = "provisioning"
    /\ UNCHANGED <<DATABASE_URL, provisionRuns, provisionFailed, listening, schemaPresent,
                   crashed, storeVars, clock, dashVars, writeSeen, last, adapterVars>>

PgConnectFailed ==
    /\ ipc = "connecting"
    /\ InitFailed
    /\ UNCHANGED <<DATABASE_URL, db, provisionRuns, schemaPresent, crashed,
                   storeVars, clock, dashVars, writeSeen, last, adapterVars>>

\* fs.mkdirSync, then await open(...)
SqliteOpen ==
    /\ ipc = "start" /\ ~DATABASE_URL
    /\ provisionRuns' = provisionRuns + 1
    /\ ipc' = "opening"
    /\ UNCHANGED <<DATABASE_URL, db, provisionFailed, listening, schemaPresent, crashed,
                   storeVars, clock, dashVars, writeSeen, last, adapterVars>>

\* fs.mkdirSync throws: db is never assigned
SqliteMkdirFailed ==
    /\ ipc = "start" /\ ~DATABASE_URL
    /\ provisionRuns' = provisionRuns + 1
    /\ InitFailed
    /\ UNCHANGED <<DATABASE_URL, db, schemaPresent, crashed,
                   storeVars, clock, dashVars, writeSeen, last, adapterVars>>

\* open resolved: db assigned; PRAGMA foreign_keys = ON is sent
SqliteOpened ==
    /\ ipc = "opening"
    /\ db' = "open"
    /\ ipc' = "pragma"
    /\ UNCHANGED <<DATABASE_URL, provisionRuns, provisionFailed, listening, schemaPresent,
                   crashed, storeVars, clock, dashVars, writeSeen, last, adapterVars>>

SqliteOpenFailed ==
    /\ ipc = "opening"
    /\ InitFailed
    /\ UNCHANGED <<DATABASE_URL, db, provisionRuns, schemaPresent, crashed,
                   storeVars, clock, dashVars, writeSeen, last, adapterVars>>

\* the pragma sets a connection flag; the DDL batch is sent
SqlitePragma ==
    /\ ipc = "pragma"
    /\ ipc' = "provisioning"
    /\ UNCHANGED <<DATABASE_URL, db, provisionRuns, provisionFailed, listening,
                   schemaPresent, crashed, storeVars, clock, dashVars, writeSeen,
                   last, adapterVars>>

\* the DDL batch succeeded (CREATE ... IF NOT EXISTS): log, startServer()
Provisioned ==
    /\ ipc = "provisioning"
    /\ schemaPresent' = TRUE
    /\ StartServer
    /\ ipc' = "done"
    /\ UNCHANGED <<DATABASE_URL, db, provisionRuns, provisionFailed, crashed,
                   storeVars, clock, dashVars, writeSeen, last, adapterVars>>

\* the DDL batch failed as a whole: what an earlier start left is untouched
ProvisionFailed ==
    /\ ipc = "provisioning"
    /\ InitFailed
    /\ UNCHANGED <<DATABASE_URL, db, provisionRuns, schemaPresent, crashed,
                   storeVars, clock, dashVars, writeSeen, last, adapterVars>>

Tick ==
    /\ clock < MaxClock
    /\ clock' = clock + 1
    /\ UNCHANGED <<startVars, crashed, storeVars, dashVars, writeSeen, last, adapterVars>>


(***************************************************************************)
(* Request handlers (lines 156-200).  Each runs only once startServer has  *)
(* registered the routes and called app.listen.                            *)
(***************************************************************************)
Serving == listening /\ ~crashed

Reply(op, code, n) == last' = [op |-> op, code |-> code, cascaded |-> n]

\* try { ... } catch (e) { res.status(500).json(...) }
ErrorEscapes(op) ==
    /\ crashed' = TRUE
    /\ last' = last

CatchError(op) ==
    /\ Reply(op, 500, 0)
    /\ crashed' = crashed

\* history: a write statement completed while the dashboard handler is
\* between its first and its third read
NoteWrite == writeSeen' = (writeSeen \/ dpc \in {"read2", "read3"})

PriceTriples ==
    {[agreed_price |-> Null, paid_price |-> Null, cost_price |-> Null],
     [agreed_price |-> Val(MaxPrice), paid_price |-> Val(1), cost_price |-> Val(1)]}
DueChoices == {Null} \cup {Val(t) : t \in 1..(MaxClock - 1)}
ReqStatuses == {"Pendiente", "Finalizado", "Cancelado"}
OrderBodies ==
    {[is_active |-> a, agreed_price |-> p.agreed_price, paid_price |-> p.paid_price,
      cost_price |-> p.cost_price, status |-> s, due_datetime |-> d] :
        a \in BOOLEAN, p \in PriceTriples, s \in ReqStatuses, d \in DueChoices}

\* POST /api/login
Login(ok) ==
    /\ Serving
    /\ Reply("login", IF ok THEN 200 ELSE 401, 0)
    /\ UNCHANGED <<startVars, crashed, storeVars, clock, dashVars, writeSeen, adapterVars>>

\* GET /api/clients, GET /api/orders, GET /api/measurements
List(op) ==
    /\ Serving
    /\ IF StoreUsable THEN Reply(op, 200, 0) /\ crashed' = crashed ELSE CatchError(op)
    /\ UNCHANGED <<startVars, storeVars, clock, dashVars, writeSeen, adapterVars>>

\* POST /api/clients: name is UNIQUE
PostClient(name) ==
    /\ Serving
    /\ nextId.clients <= MaxClients
    /\ IF StoreUsable /\ ~(\E c \in clients : c.name = name)
       THEN /\ clients' = clients \cup {[id |-> nextId.clients, name |-> name]}
            /\ nextId' = [nextId EXCEPT !.clients = @ + 1]
            /\ Reply("postClient", 201, 0)
            /\ crashed' = crashed
            /\ NoteWrite
       ELSE /\ CatchError("postClient")
            /\ UNCHANGED <<clients, nextId, writeSeen>>
    /\ UNCHANGED <<startVars, orders, measurement_tasks, clock, dashVars, adapterVars>>

\* DELETE /api/clients/:id
DeleteClient(id) ==
    /\ Serving
    /\ IF StoreUsable
       THEN /\ clients' = {c \in clients : c.id # id}
            /\ orders' = IF id \in ClientIds THEN CascadeDelete(orders, id) ELSE orders
            /\ measurement_tasks' =
                 IF id \in ClientIds THEN CascadeDelete(measurement_tasks, id)
                 ELSE measurement_tasks
            /\ Reply("deleteClient", 204,
                     Cardinality({r \in orders \cup measurement_tasks : r.client_id = id}))
            /\ crashed' = crashed
            /\ NoteWrite
       ELSE /\ CatchError("deleteClient")
            /\ UNCHANGED <<clients, orders, measurement_tasks, writeSeen>>
    /\ UNCHANGED <<startVars, nextId, clock, dashVars, adapterVars>>

\* POST /api/orders
PostOrder(clientId, body) ==
    /\ Serving
    /\ nextId.orders <= MaxOrders
    /\ IF StoreUsable /\ ForeignKeyOk(clientId)
       THEN /\ orders' = orders \cup
                 {NewOrder(nextId.orders,
                           [k \in (DOMAIN body) \cup {"client_id"} |->
                               IF k = "client_id" THEN clientId ELSE body[k]])}
            /\ nextId' = [nextId EXCEPT !.orders = @ + 1]
            /\ Reply("postOrder", 201, 0)
            /\ crashed' = crashed
            /\ NoteWrite
       ELSE /\ CatchError("postOrder")
            /\ UNCHANGED <<orders, nextId, writeSeen>>
    /\ UNCHANGED <<startVars, clients, measurement_tasks, clock, dashVars, adapterVars>>

\* PUT /api/orders/:id
PutOrder(id, body) ==
    /\ Serving
    /\ IF StoreUsable
       THEN /\ orders' = UpdateOrders(orders, id, body)
            /\ Reply("putOrder", 200, 0)
            /\ crashed' = crashed
            /\ NoteWrite
       ELSE /\ CatchError("putOrder")
            /\ UNCHANGED <<orders, writeSeen>>
    /\ UNCHANGED <<startVars, clients, measurement_tasks, nextId, clock, dashVars,
                   adapterVars>>

\* DELETE /api/orders/:id
DeleteOrder(id) ==
    /\ Serving
    /\ IF StoreUsable
       THEN /\ orders' = {o \in orders : o.id # id}
            /\ Reply("deleteOrder", 204, 0)
            /\ crashed' = crashed
            /\ NoteWrite
       ELSE /\ CatchError("deleteOrder")
            /\ UNCHANGED <<orders, writeSeen>>
    /\ UNCHANGED <<startVars, clients, measurement_tasks, nextId, clock, dashVars,
                   adapterVars>>

\* POST /api/measurements: task_datetime is NOT NULL
PostMeasurement(clientId, when) ==
    /\ Serving
    /\ nextId.measurement_tasks <= MaxTasks
    /\ IF StoreUsable /\ ForeignKeyOk(clientId) /\ when # Null
       THEN /\ measurement_tasks' = measurement_tasks \cup
                 {NewTask(nextId.measurement_tasks, clientId, when)}
            /\ nextId' = [nextId EXCEPT !.measurement_tasks = @ + 1]
            /\ Reply("postMeasurement", 201, 0)
            /\ crashed' = crashed
            /\ NoteWrite
       ELSE /\ CatchError("postMeasurement")
            /\ UNCHANGED <<measurement_tasks, nextId, writeSeen>>
    /\ UNCHANGED <<startVars, clients, orders, clock, dashVars, adapterVars>>

\* PUT /api/measurements/:id
PutMeasurement(id, done) ==
    /\ Serving
    /\ IF StoreUsable
       THEN /\ measurement_tasks' =
                 {IF t.id = id THEN [t EXCEPT !.is_completed = done] ELSE t :
                    t \in measurement_tasks}
            /\ Reply("putMeasurement", 200, 0)
            /\ crashed' = crashed
            /\ NoteWrite
       ELSE /\ CatchError("putMeasurement")
            /\ UNCHANGED <<measurement_tasks, writeSeen>>
    /\ UNCHANGED <<startVars, clients, orders, nextId, clock, dashVars, adapterVars>>

\* DELETE /api/measurements/:id
DeleteMeasurement(id) ==
    /\ Serving
    /\ IF StoreUsable
       THEN /\ measurement_tasks' = {t \in measurement_tasks : t.id # id}
            /\ Reply("deleteMeasurement", 204, 0)
            /\ crashed' = crashed
            /\ NoteWrite
       ELSE /\ CatchError("deleteMeasurement")
            /\ UNCHANGED <<measurement_tasks, writeSeen>>
    /\ UNCHANGED <<startVars, clients, orders, nextId, clock, dashVars, adapterVars>>

(***************************************************************************)
(* GET /api/dashboard-summary (lines 163-183): three awaited reads, then   *)
(* the synchronous aggregation and res.json                                *)
(***************************************************************************)
DashFail ==
    /\ CatchError("dashboard")
    /\ dpc' = "idle"
    /\ UNCHANGED <<activeOrders, measurements, ordersForTasks, res, writeSeen>>

\* const activeOrders = await dbWrapper.all(...)
DashRead1 ==
    /\ Serving
    /\ dpc \in {"idle", "done"}
    /\ IF StoreUsable
       THEN /\ \E rows \in RowOrders(SelectActiveOrders) : activeOrders' = rows
            /\ measurements' = <<>>
            /\ ordersForTasks' = <<>>
            /\ res' = NoRes
            /\ writeSeen' = FALSE
            /\ dpc' = "read2"
            /\ UNCHANGED <<last, crashed>>
       ELSE DashFail
    /\ UNCHANGED <<startVars, storeVars, clock, adapterVars>>

\* const measurements = await dbWrapper.all(...)
DashRead2 ==
    /\ Serving
    /\ dpc = "read2"
    /\ \E rows \in RowOrders(SelectMeasurements) : measurements' = rows
    /\ dpc' = "read3"
    /\ UNCHANGED <<startVars, crashed, storeVars, clock, activeOrders, ordersForTasks,
                   res, writeSeen, last, adapterVars>>

\* const ordersForTasks = await dbWrapper.all(...)
DashRead3 ==
    /\ Serving
    /\ dpc = "read3"
    /\ \E rows \in RowOrders(SelectOrdersForTasks) : ordersForTasks' = rows
    /\ dpc' = "compute"
    /\ UNCHANGED <<startVars, crashed, storeVars, clock, activeOrders, measurements,
                   res, writeSeen, last, adapterVars>>

\* lines 170-178: kpis, statusSummary, monthlyFinancials, upcomingTasks, res.json
DashCompute ==
    /\ Serving
    /\ dpc = "compute"
    /\ res' = [sent |-> TRUE,
               kpis |-> Kpis(activeOrders),
               statusSummary |-> StatusSummary(activeOrders),
               monthlyFinancials |-> MonthlyFinancials(activeOrders, clock),
               upcomingTasks |-> SortedTasks(ordersForTasks, measurements, clock)]
    /\ Reply("dashboard", 200, 0)
    /\ dpc' = "done"
    /\ UNCHANGED <<startVars, crashed, storeVars, clock, activeOrders, measurements,
                   ordersForTasks, writeSeen, adapterVars>>

(***************************************************************************)
(* The server: start-up, then entity requests in any interleaving.  The    *)
(* dashboard handler only reads the store; it runs against the writes in   *)
(* SpecDashboard below.                                                    *)
(***************************************************************************)
Init ==
    /\ DATABASE_URL \in BOOLEAN
    /\ db = "undefined"
    /\ ipc = "start"
    /\ provisionRuns = 0
    /\ provisionFailed = FALSE
    /\ listening = FALSE
    /\ crashed = FALSE
    /\ schemaPresent \in BOOLEAN    \* the store may hold an earlier start's schema
    /\ clients = {}
    /\ orders = {}
    /\ measurement_tasks = {}
    /\ nextId = [clients |-> 1, orders |-> 1, measurement_tasks |-> 1]
    /\ clock = 0
    /\ dpc = "idle"
    /\ activeOrders = <<>>
    /\ measurements = <<>>
    /\ ordersForTasks = <<>>
    /\ writeSeen = FALSE
    /\ res = NoRes
    /\ last = NoLast
    /\ pgRows = <<>>
    /\ sqliteRows = <<>>

Next ==
    \/ PgConnect
    \/ PgConnected
    \/ PgConnectFailed
    \/ SqliteOpen
    \/ SqliteMkdirFailed
    \/ SqliteOpened
    \/ SqliteOpenFailed
    \/ SqlitePragma
    \/ Provisioned
    \/ ProvisionFailed
    \/ Tick
    \/ \E ok \in BOOLEAN : Login(ok)
    \/ \E op \in {"getClients", "getOrders", "getMeasurements"} : List(op)
    \/ \E name \in Names : PostClient(name)
    \/ \E id \in 1..MaxClients : DeleteClient(id)
    \/ \E c \in 1..MaxClients, body \in OrderBodies : PostOrder(c, body)
    \/ \E id \in 1..MaxOrders, body \in OrderBodies : PutOrder(id, body)
    \/ \E id \in 1..MaxOrders : DeleteOrder(id)
    \/ \E c \in 1..MaxClients, when \in DueChoices : PostMeasurement(c, when)
    \/ \E id \in 1..MaxTasks, done \in BOOLEAN : PutMeasurement(id, done)
    \/ \E id \in 1..MaxTasks : DeleteMeasurement(id)

Spec == Init /\ [][Next]_vars


(***************************************************************************)
(* The dashboard handler interleaved with the writes of a started server:  *)
(* one client exists, the instant is any of the model's, and order,        *)
(* measurement and client writes complete between the handler's reads.     *)
(***************************************************************************)
Started ==
    /\ DATABASE_URL \in BOOLEAN
    /\ db = "open"
    /\ ipc = "done"
    /\ provisionRuns = 1
    /\ listening = TRUE
    /\ crashed = FALSE
    /\ writeSeen = FALSE
    /\ res = NoRes
    /\ last = NoLast
    /\ pgRows = <<>>
    /\ sqliteRows = <<>>

InitDashboard ==
    /\ Started
    /\ \/ /\ schemaPresent = TRUE /\ provisionFailed = FALSE
          /\ clients = {[id |-> 1, name |-> "Acme"]}
          /\ nextId = [clients |-> 2, orders |-> 1, measurement_tasks |-> 1]
       \/ /\ schemaPresent = FALSE /\ provisionFailed = TRUE
          /\ clients = {}
          /\ nextId = [clients |-> 1, orders |-> 1, measurement_tasks |-> 1]
    /\ orders = {}
    /\ measurement_tasks = {}
    /\ clock \in 0..MaxClock
    /\ dpc = "idle"
    /\ activeOrders = <<>>
    /\ measurements = <<>>
    /\ ordersForTasks = <<>>

NextDashboard ==
    \/ \E id \in 1..MaxClients : DeleteClient(id)
    \/ \E c \in 1..MaxClients, body \in OrderBodies : PostOrder(c, body)
    \/ \E id \in 1..MaxOrders, body \in OrderBodies : PutOrder(id, body)
    \/ \E id \in 1..MaxOrders : DeleteOrder(id)
    \/ \E c \in 1..MaxClients, when \in DueChoices : PostMeasurement(c, when)
    \/ \E id \in 1..MaxTasks, done \in BOOLEAN : PutMeasurement(id, done)
    \/ \E id \in 1..MaxTasks : DeleteMeasurement(id)
    \/ DashRead1
    \/ DashRead2
    \/ DashRead3
    \/ DashCompute

SpecDashboard == InitDashboard /\ [][NextDashboard]_vars

(***************************************************************************)
(* The aggregation as a function of what the three reads returned: the     *)
(* handler stands after its third read, with the rows drawn from bounded   *)
(* sets, and computes the response.                                        *)
(***************************************************************************)
SeqsUpTo(S, n) == UNION {[1..k -> S] : k \in 0..n}
PriceChoices == {Null} \cup {Val(v) : v \in 0..MaxPrice}

\* a row of SELECT * FROM orders (with c.name for the third read)
OrderRow(id, agreed, paid, cost, status, due, created) ==
    [id |-> id, client_id |-> 1, is_active |-> TRUE,
     agreed_price |-> agreed, paid_price |-> paid, cost_price |-> cost,
     status |-> status, due_datetime |-> due, createdAt |-> created,
     updatedAt |-> created]

TaskRow(id, when) ==
    [id |-> id, client_id |-> 1, task_datetime |-> when, is_completed |-> FALSE,
     clientName |-> "Acme"]

AfterThirdRead ==
    /\ Started
    /\ schemaPresent = TRUE
    /\ provisionFailed = FALSE
    /\ clients = {[id |-> 1, name |-> "Acme"]}
    /\ nextId = [clients |-> 2, orders |-> 1, measurement_tasks |-> 1]
    /\ orders = {}
    /\ measurement_tasks = {}
    /\ dpc = "compute"

InitKpi ==
    /\ AfterThirdRead
    /\ clock = 0
    /\ \E ps \in SeqsUpTo(PriceChoices \X PriceChoices \X PriceChoices, MaxKpiRows) :
         activeOrders = [i \in 1..Len(ps) |->
            OrderRow(i, ps[i][1], ps[i][2], ps[i][3], "Pendiente", Null, 0)]
    /\ measurements = <<>>
    /\ ordersForTasks = <<>>

InitStatus ==
    /\ AfterThirdRead
    /\ clock = 0
    /\ \E ss \in SeqsUpTo(Statuses \ {"Cancelado"}, MaxStatusRows) :
         activeOrders = [i \in 1..Len(ss) |->
            OrderRow(i, Val(1), Val(1), Val(1), ss[i], Null, 0)]
    /\ measurements = <<>>
    /\ ordersForTasks = <<>>

\* the current instant: the first or the last tick of January, March, June
\* or December of year 0; createdAt anywhere from the month before the
\* series to now
NowMonths == {0, 2, 5, 11}
MonthPrices ==
    {<<Null, Null, Null>>, <<Val(MaxPrice + 2), Val(MaxPrice + 1), Val(MaxPrice)>>}

InitMonthly ==
    /\ AfterThirdRead
    /\ \E m \in NowMonths : clock \in {m * TicksPerMonth, m * TicksPerMonth + TicksPerMonth - 1}
    /\ \E k \in 0..MaxMonthRows :
         \E cs \in [1..k -> (((AbsMonth(clock) - SeriesLength) * TicksPerMonth)..clock)
                              \X MonthPrices] :
            activeOrders = [i \in 1..k |->
              OrderRow(i, cs[i][2][1], cs[i][2][2], cs[i][2][3], "Pendiente", Null, cs[i][1])]
    /\ measurements = <<>>
    /\ ordersForTasks = <<>>

InitUpcoming ==
    /\ AfterThirdRead
    /\ clock \in 1..(MaxEventTime - 1)
    /\ activeOrders = <<>>
    /\ \E ds \in SeqsUpTo({Null} \cup {Val(t) : t \in 0..MaxEventTime}, MaxDueRows) :
         ordersForTasks = [i \in 1..Len(ds) |->
            [k \in (DOMAIN OrderRow(i, Null, Null, Null, "Pendiente", ds[i], 0))
                     \cup {"clientName"} |->
                IF k = "clientName" THEN "Acme"
                ELSE OrderRow(i, Null, Null, Null, "Pendiente", ds[i], 0)[k]]]
    /\ \E ts \in SeqsUpTo({Val(t) : t \in 0..MaxEventTime}, MaxMeasRows) :
         measurements = [i \in 1..Len(ts) |-> TaskRow(i, ts[i])]

NextCompute == DashCompute

SpecKpi == InitKpi /\ [][NextCompute]_vars
SpecStatus == InitStatus /\ [][NextCompute]_vars
SpecMonthly == InitMonthly /\ [][NextCompute]_vars
SpecUpcoming == InitUpcoming /\ [][NextCompute]_vars


(***************************************************************************)
(* dbWrapper.get / dbWrapper.all (lines 30-48) on both paths over the same *)
(* table contents.  The wrapper hands back the driver's rows as they are:  *)
(* pg gives a BOOLEAN column as a boolean and a TIMESTAMPTZ column as a    *)
(* Date; sqlite3 gives a BOOLEAN column as the integer 1 or 0 and a        *)
(* DATETIME column as the stored text.  A statement is the sequence of the *)
(* numbers of its $k placeholders, in textual order.                       *)
(***************************************************************************)
PgRow(o) ==
    [o EXCEPT !.is_active = [type |-> "boolean", v |-> IF o.is_active THEN 1 ELSE 0],
              !.due_datetime = IF @ = Null THEN Null ELSE <<[type |-> "Date", at |-> @[1]]>>,
              !.createdAt = [type |-> "Date", at |-> @],
              !.updatedAt = [type |-> "Date", at |-> @]]

SqliteRow(o) ==
    [o EXCEPT !.is_active = [type |-> "number", v |-> IF o.is_active THEN 1 ELSE 0],
              !.due_datetime = IF @ = Null THEN Null ELSE <<[type |-> "string", at |-> @[1]]>>,
              !.createdAt = [type |-> "string", at |-> @],
              !.updatedAt = [type |-> "string", at |-> @]]

\* pg binds $k to params[k - 1]
PgBound(sql, params) == [i \in 1..Len(sql) |-> params[sql[i]]]

\* sql.replace(/\$\d+/g, '?'): the i-th '?' is bound to params[i - 1]
SqliteBound(sql, params) == [i \in 1..Len(sql) |-> params[i]]

\* SELECT o.* ... WHERE o.id = $1
SelectOrderById == <<1>>

WrapperGet(pg, sql, params) ==
    LET bound == IF pg THEN PgBound(sql, params) ELSE SqliteBound(sql, params)
        hit == {o \in orders : o.id = bound[1]}
    IN  IF hit = {} THEN <<>>
        ELSE <<IF pg THEN PgRow(CHOOSE o \in hit : TRUE)
               ELSE SqliteRow(CHOOSE o \in hit : TRUE)>>

WrapperAll(pg, rows) ==
    [i \in 1..Len(rows) |-> IF pg THEN PgRow(rows[i]) ELSE SqliteRow(rows[i])]

AdapterGet(id) ==
    /\ Serving /\ StoreUsable
    /\ pgRows' = WrapperGet(TRUE, SelectOrderById, <<id>>)
    /\ sqliteRows' = WrapperGet(FALSE, SelectOrderById, <<id>>)
    /\ UNCHANGED <<startVars, crashed, storeVars, clock, dashVars, writeSeen, last>>

AdapterAll ==
    /\ Serving /\ StoreUsable
    /\ \E rows \in RowOrders(SelectActiveOrders) :
         /\ pgRows' = WrapperAll(TRUE, rows)
         /\ sqliteRows' = WrapperAll(FALSE, rows)
    /\ UNCHANGED <<startVars, crashed, storeVars, clock, dashVars, writeSeen, last>>

InitAdapter ==
    /\ Started
    /\ schemaPresent = TRUE
    /\ provisionFailed = FALSE
    /\ clients = {[id |-> 1, name |-> "Acme"]}
    /\ clock \in 0..MaxClock
    /\ \/ orders = {} /\ nextId = [clients |-> 2, orders |-> 1, measurement_tasks |-> 1]
       \/ /\ \E body \in OrderBodies :
               orders = {[id |-> 1, client_id |-> 1, is_active |-> body.is_active,
                          agreed_price |-> body.agreed_price,
                          paid_price |-> body.paid_price, cost_price |-> body.cost_price,
                          status |-> body.status, due_datetime |-> body.due_datetime,
                          createdAt |-> 0, updatedAt |-> clock]}
          /\ nextId = [clients |-> 2, orders |-> 2, measurement_tasks |-> 1]
    /\ measurement_tasks = {}
    /\ dpc = "idle"
    /\ activeOrders = <<>>
    /\ measurements = <<>>
    /\ ordersForTasks = <<>>

NextAdapter ==
    \/ \E id \in 1..MaxOrders : AdapterGet(id)
    \/ AdapterAll

SpecAdapter == InitAdapter /\ [][NextAdapter]_vars

(***************************************************************************)
(* Properties                                                              *)
(***************************************************************************)
Sent == dpc = "done" /\ res.sent

\* the sum of a price column over rows, NULL counted as 0, last row first
RECURSIVE SumNullAsZero(_, _)
SumNullAsZero(rows, col) ==
    IF rows = <<>> THEN 0
    ELSE (IF rows[Len(rows)][col] = Null THEN 0 ELSE rows[Len(rows)][col][1])
         + SumNullAsZero(SubSeq(rows, 1, Len(rows) - 1), col)

\* C1: the KPIs of a response are the column sums of the first read, every
\* NULL price counted as 0: totalPaid = sum paid_price, totalCosts = sum
\* cost_price, netProfit = totalPaid - totalCosts, totalDebt = sum
\* agreed_price - totalPaid.
C1_KpiSums ==
    Sent =>
        /\ res.kpis.totalPaid = SumNullAsZero(activeOrders, "paid_price")
        /\ res.kpis.totalCosts = SumNullAsZero(activeOrders, "cost_price")
        /\ res.kpis.netProfit = res.kpis.totalPaid - res.kpis.totalCosts
        /\ res.kpis.totalDebt =
             SumNullAsZero(activeOrders, "agreed_price") - res.kpis.totalPaid

\* a response over two orders with a NULL in each price column and a debt
C1_Witness ==
    /\ Sent
    /\ Len(activeOrders) >= 2
    /\ \E i \in 1..Len(activeOrders) : activeOrders[i].paid_price = Null
    /\ \E i \in 1..Len(activeOrders) : activeOrders[i].cost_price = Null
    /\ \E i \in 1..Len(activeOrders) : activeOrders[i].agreed_price = Null
    /\ res.kpis.totalDebt > 0

RowsWithStatus(st) == {i \in 1..Len(activeOrders) : activeOrders[i].status = st}
FirstSeen(st) == CHOOSE i \in RowsWithStatus(st) : \A j \in RowsWithStatus(st) : i <= j

RECURSIVE SumCounts(_)
SumCounts(entries) ==
    IF entries = <<>> THEN 0 ELSE Head(entries).count + SumCounts(Tail(entries))

\* C4: statusSummary has an entry for a status exactly when an active order
\* has it, one entry per status, each count the number of active orders with
\* that status, and the counts add up to the number of active orders.
C4_Histogram ==
    Sent =>
        LET h == res.statusSummary IN
        /\ \A st \in Statuses :
             (\E k \in 1..Len(h) : h[k].status = st) <=> RowsWithStatus(st) # {}
        /\ \A k, l \in 1..Len(h) : h[k].status = h[l].status => k = l
        /\ \A k \in 1..Len(h) : h[k].count = Cardinality(RowsWithStatus(h[k].status))
        /\ SumCounts(h) = Len(activeOrders)

\* a response over three or more orders with two statuses present, one of
\* them more than once, and one status absent
C4_Witness ==
    /\ Sent
    /\ Len(activeOrders) >= 3
    /\ Len(res.statusSummary) = 2
    /\ \E k \in 1..Len(res.statusSummary) : res.statusSummary[k].count >= 2

\* C5: statusSummary is in descending order of count, and statuses with
\* equal counts are in the order of their first rows in the scan.
C5_HistogramOrder ==
    Sent =>
        LET h == res.statusSummary IN
        \A k, l \in 1..Len(h) :
            k < l =>
                /\ h[k].count >= h[l].count
                /\ h[k].count = h[l].count =>
                     FirstSeen(h[k].status) < FirstSeen(h[l].status)

\* a response where the sort moved a later status ahead of the first one
\* seen, and two statuses tie
C5_Witness ==
    /\ Sent
    /\ Len(res.statusSummary) = 3
    /\ res.statusSummary[1].status # activeOrders[1].status
    /\ res.statusSummary[2].count = res.statusSummary[3].count

\* the calendar month of entry k, counted in months from the epoch
EntryMonth(k) == AbsMonth(clock) - (SeriesLength - k)
RowsInMonth(am) == SelectSeq(activeOrders, LAMBDA o : AbsMonth(o.createdAt) = am)

DueIdx == {i \in 1..Len(ordersForTasks) :
            /\ ordersForTasks[i].due_datetime # Null
            /\ ordersForTasks[i].due_datetime[1] >= clock}
TaskIdx == {i \in 1..Len(measurements) :
            /\ measurements[i].task_datetime # Null
            /\ measurements[i].task_datetime[1] >= clock}
IsDeliveryOf(e, i) ==
    /\ e.type = "Entrega" /\ e.id = ordersForTasks[i].id
    /\ e.date = ordersForTasks[i].due_datetime[1]
    /\ e.clientId = ordersForTasks[i].client_id
    /\ e.clientName = ordersForTasks[i].clientName
IsMeasurementOf(e, i) ==
    /\ e.type = "Medicion" /\ e.id = measurements[i].id
    /\ e.date = measurements[i].task_datetime[1]
    /\ e.clientId = measurements[i].client_id
    /\ e.clientName = measurements[i].clientName

\* C2: upcomingTasks is the first 5 (or all, if fewer) of the eligible
\* events in ascending date order: every entry is the Delivery event of a
\* third-read order with a non-null due date >= now or the Measurement event
\* of a second-read task with task date >= now, no row gives two entries,
\* the dates are non-decreasing, the length is min(5, number eligible), and
\* every eligible event left out is dated no earlier than every entry.
C2_UpcomingFeed ==
    Sent =>
        LET u == res.upcomingTasks
            n == Cardinality(DueIdx) + Cardinality(TaskIdx)
        IN
        /\ Len(u) = IF n < FeedLength THEN n ELSE FeedLength
        /\ \A k \in 1..Len(u) :
             /\ u[k].date >= clock
             /\ \/ \E i \in DueIdx : IsDeliveryOf(u[k], i)
                \/ \E i \in TaskIdx : IsMeasurementOf(u[k], i)
        /\ \A k, l \in 1..Len(u) : k < l =>
             /\ u[k].date <= u[l].date
             /\ ~(u[k].type = u[l].type /\ u[k].id = u[l].id)
        /\ \A i \in DueIdx :
             (\A k \in 1..Len(u) : ~IsDeliveryOf(u[k], i)) =>
                 \A k \in 1..Len(u) : u[k].date <= ordersForTasks[i].due_datetime[1]
        /\ \A i \in TaskIdx :
             (\A k \in 1..Len(u) : ~IsMeasurementOf(u[k], i)) =>
                 \A k \in 1..Len(u) : u[k].date <= measurements[i].task_datetime[1]

\* a response cut to 5 events out of 6 eligible, both kinds in it, with the
\* first Measurement ahead of a Delivery read before it
C2_Witness ==
    /\ Sent
    /\ Cardinality(DueIdx) + Cardinality(TaskIdx) > FeedLength
    /\ Len(res.upcomingTasks) = FeedLength
    /\ res.upcomingTasks[1].type = "Medicion"
    /\ \E k \in 1..FeedLength :
         res.upcomingTasks[k].type = "Entrega"
         /\ res.upcomingTasks[k].date > res.upcomingTasks[1].date


\* C7: on the same table contents, statement and params, dbWrapper.get and
\* dbWrapper.all return equal rows (same fields, equal values, boolean and
\* date columns included) on the PostgreSQL path and on the SQLite path.
C7_BackendEquivalence == pgRows = sqliteRows

\* C6: every order and every measurement task references an existing
\* client, in every reachable state; and a DELETE /api/clients/:id that
\* succeeds leaves no order or task with that client_id.
C6_Referential ==
    /\ [](\A r \in orders \cup measurement_tasks : r.client_id \in ClientIds)
    /\ [][\A id \in 1..MaxClients :
            (DeleteClient(id) /\ last'.code = 204) =>
                \A r \in orders' \cup measurement_tasks' : r.client_id # id]_vars

\* a client deletion that took an order and a task with it, another client
\* being left
C6_Witness ==
    /\ last.op = "deleteClient"
    /\ last.code = 204
    /\ last.cascaded >= 2
    /\ clients # {}

\* the request body of the PUT that wrote row n: the columns it set
SentBody(n) ==
    [is_active |-> n.is_active, agreed_price |-> n.agreed_price,
     paid_price |-> n.paid_price, cost_price |-> n.cost_price, status |-> n.status,
     due_datetime |-> n.due_datetime]

\* C8: a successful PUT /api/orders/:id of an existing order leaves its
\* updatedAt equal to the time of the update though the statement does not
\* set it, on either backend; createdAt of a row never changes; and
\* updatedAt >= createdAt for every order in every reachable state.
C8_UpdatedAt ==
    [][/\ \A o \in orders, n \in orders' :
            (/\ o.id = n.id
             /\ last'.op = "putOrder"
             /\ last'.code = 200
             /\ PutOrder(o.id, SentBody(n))) => n.updatedAt = clock
       /\ \A o \in orders, n \in orders' : o.id = n.id => n.createdAt = o.createdAt
       /\ \A o \in orders : o.updatedAt >= o.createdAt
       /\ \A n \in orders' : n.updatedAt >= n.createdAt]_vars

\* an order updated on SQLite at a later instant than it was created
C8_Witness ==
    /\ ~DATABASE_URL
    /\ last.op = "putOrder"
    /\ last.code = 200
    /\ \E o \in orders : o.updatedAt = clock /\ o.updatedAt > o.createdAt

EntityOps ==
    {"getClients", "postClient", "deleteClient", "getOrders", "postOrder", "putOrder",
     "deleteOrder", "getMeasurements", "postMeasurement", "putMeasurement",
     "deleteMeasurement"}

StartupOrder ==
    /\ provisionRuns <= 1
    /\ listening => (provisionRuns = 1 /\ ipc = "done")
    /\ last # NoLast => listening
    /\ provisionFailed => listening
    /\ ~crashed

\* C9 as stated: provisioning is attempted once and has finished before the
\* server starts and before any request is handled; after a failed
\* provisioning the server is started all the same and every entity request
\* answers 500, the process never crashing.
C9_AsStated ==
    /\ StartupOrder
    /\ (provisionFailed /\ last.op \in EntityOps) => last.code = 500

\* C9 amended: as above, but after a failed provisioning an entity request
\* answers 500 when its store call fails, which is every request when the
\* handle was never opened or connected or the tables are absent; against
\* tables an earlier start left, requests are served.
C9_Startup ==
    /\ StartupOrder
    /\ (last.op \in EntityOps /\ ~StoreUsable) => last.code = 500
    /\ (provisionFailed /\ last.op \in EntityOps /\ last.code # 500) =>
          (db = "open" /\ schemaPresent)

\* an entity request answered 500 by a server started after its
\* provisioning failed
C9_Witness ==
    /\ provisionFailed
    /\ listening
    /\ ~StoreUsable
    /\ last.op = "postOrder"
    /\ last.code = 500

DeliveryCount(u) == Cardinality({k \in 1..Len(u) : u[k].type = "Entrega"})

\* C10: a response shows a Delivery event for an order the first read did
\* not return (so not counted in the KPIs and the histogram) only if a write
\* completed between the first and the third read; such a response is
\* reachable (the witness).
C10_SkewNeedsWrite ==
    (Sent /\ ~writeSeen) =>
        /\ \A k \in 1..Len(res.upcomingTasks) :
             res.upcomingTasks[k].type = "Entrega" =>
                \E i \in 1..Len(activeOrders) :
                    activeOrders[i].id = res.upcomingTasks[k].id
        /\ DeliveryCount(res.upcomingTasks) <= SumCounts(res.statusSummary)

\* a response with a Delivery event and no order counted: KPIs and
\* histogram are those of the store before the order was written, the event
\* is from the store after it
C10_Witness ==
    /\ Sent
    /\ writeSeen
    /\ DeliveryCount(res.upcomingTasks) = 1
    /\ res.statusSummary = <<>>
    /\ res.kpis.totalPaid = 0
    /\ \E o \in orders : o.paid_price # Null /\ o.paid_price[1] > 0

=============================================================================
